---- MODULE Spec2Model ----
(***************************************************************************)
(* Span lifecycle of the request-tracing middleware of startup-http       *)
(* (src/startup-http/src/trace.rs): Service::call, the future it returns   *)
(* and the EndSpanBody response body proxy.                                *)
(***************************************************************************)
EXTENDS Integers, Sequences, FiniteSets, TLC

\* ---------------------------------------------------------------- bounds
NumReqs == 2        \* requests in flight in the concurrent specification
NumThreads == 2     \* worker threads
MaxChunks == 2      \* data chunks of a response body (one request)
MaxPulls == 4       \* pulls the consumers make in all (one request)
ConcChunks == 1     \* data chunks of every body in the concurrent specification
ConcPulls == 1      \* pulls the consumers make in all, concurrent specification
MaxReplaces == 2    \* calls of replace_tracing_layer in the life of the process

Threads == 1 .. NumThreads

\* ---------------------------------------------------------------- inputs
\* Status codes a handler can put on a response (http::StatusCode holds
\* 100..=999); representatives of every class around the 5xx boundary.
StatusCodes == {200, 404, 500, 599, 600}
ConcStatusCodes == {503}
\* Errors of the inner operation, errors of the inner body, trailer maps.
Errors == {"timeout", "refused"}
ConcErrors == {"refused"}
BodyErrors == {"reset"}
Trailers == {"grpc-status"}
\* Trace-context headers of a request: absent, present but unparsable, or a
\* valid upstream context.
Headers == {"none", "malformed", "valid"}
\* What the thread-local random source yields on a draw: a stream of bytes.
RngStreams == {"zeros", "ones", "count"}
\* Layers handed to replace_tracing_layer by callers other than setup.
Layers == {"none", "custom"}

\* Contexts: 0 is the empty context, OuterCtx a context some enclosing code
\* attached to a thread before the middleware ran, s >= 1 the context
\* holding span s.  Odd threads start with the empty context, even threads
\* inside an outer one.
OuterCtx == -1
BaseCtx(t) == IF t % 2 = 1 THEN 0 ELSE OuterCtx

VARIABLES
    cfg,        \* the limits of the specification being run
    pc,         \* per request: position of its task
    span,       \* per request: the span built for it (0: none yet)
    nextSpan,   \* the tracer's next span
    ops,        \* per span: the operations performed on it, in order
    ambient,    \* per thread: the thread-local current context
    base,       \* per thread: the context that was current at start
    guard,      \* per thread: the context a live ContextGuard restores
    busy,       \* per thread: the request running on it (0: idle)
    inner,      \* per request: what the inner operation's future yielded
    ret,        \* per request: what the future returned upstream
    proxy,      \* per request: span context carried by its EndSpanBody
    body,       \* per request: chunks the wrapped body still holds
    sent,       \* per request: chunks the wrapped body was created with
    hist,       \* per request: the pulls made on the proxy, in order
    sink,       \* TRACING_LAYER, the active dynamic layer, the global tracer
    hdr,        \* per request: its trace-context header
    parent,     \* per request: the span context the propagator extracted
    sctx,       \* per span: its span context and the draws that made its ids
    links       \* per request: span contexts make_span linked its span to

reqIds == <<hdr, parent, sctx, links>>
vars == <<cfg, pc, span, nextSpan, ops, ambient, base, guard, busy, inner, ret,
          proxy, body, sent, hist, sink, hdr, parent, sctx, links>>

AllReqs == 1 .. NumReqs
Reqs == cfg.reqs

\* ------------------------------------------------------ span operations
Op(name, code, text, r, via) ==
    [op |-> name, code |-> code, text |-> text, by |-> r, via |-> via]

SetAttribute(code, r, via) == Op("set_attribute", code, "http.status_code", r, via)
SetStatusError(text, r, via) == Op("set_status", 0, text, r, via)
RecordException(e, r, via) == Op("record_exception", 0, e, r, via)
End(r, via) == Op("end", 0, "", r, via)

IsEnd(o) == o.op = "end"
EndCount(s) == Cardinality({i \in DOMAIN ops[s] : IsEnd(ops[s][i])})

\* http::StatusCode::is_server_error: the 5xx class.
IsServerError(code) == code >= 500 /\ code < 600

\* http::StatusCode::canonical_reason, then unwrap_or_default.
CanonicalReason(code) ==
    CASE code = 200 -> "OK"
      [] code = 404 -> "Not Found"
      [] code = 500 -> "Internal Server Error"
      [] code = 503 -> "Service Unavailable"
      [] code = 502 -> "Bad Gateway"
      [] OTHER -> ""

\* format!("{:?}", error): the Debug rendering of the inner errors.
DebugFmt(e) ==
    CASE e = "timeout" -> "Elapsed(())"
      [] e = "refused" -> "Io(ConnectionRefused)"
      [] OTHER -> "?"

\* The Ok branch of the map closure: operations on the span.
OkOpsAbove(r, code) ==
    <<SetAttribute(code, r, "map")>>
        \o (IF code >= 500 THEN <<SetStatusError(CanonicalReason(code), r, "map")>> ELSE <<>>)
OkOpsEnd(r, code) ==
    <<SetAttribute(code, r, "map")>>
        \o (IF IsServerError(code)
            THEN <<SetStatusError(CanonicalReason(code), r, "map")>> ELSE <<>>)
        \o <<End(r, "map")>>
OkOps(r, code) ==
    <<SetAttribute(code, r, "map")>>
        \o (IF IsServerError(code)
            THEN <<SetStatusError(CanonicalReason(code), r, "map")>> ELSE <<>>)

\* The Err branch of the map closure.
ErrOpsNoEnd(r, e) ==
    <<SetStatusError(DebugFmt(e), r, "map"), RecordException(e, r, "map")>>
ErrOpsEndFirst(r, e) ==
    <<SetStatusError(DebugFmt(e), r, "map"), End(r, "map"), RecordException(e, r, "map")>>
ErrOps(r, e) ==
    <<SetStatusError(DebugFmt(e), r, "map"), RecordException(e, r, "map"), End(r, "map")>>

\* ------------------------------------------------------------ the proxy
\* Results of a pull on a body.
Pending == [kind |-> "pending", val |-> ""]
Chunk(c) == [kind |-> "chunk", val |-> c]
BodyErr(e) == [kind |-> "error", val |-> e]
NoData == [kind |-> "none", val |-> ""]
SomeTrailers(h) == [kind |-> "trailers", val |-> h]
NoTrailers == [kind |-> "notrailers", val |-> ""]

ChunkName(i) == CASE i = 1 -> "c1" [] i = 2 -> "c2" [] i = 3 -> "c3" [] OTHER -> "c4"
MkBody(n) == [i \in 1 .. n |-> ChunkName(i)]

\* What the wrapped body can answer to poll_data / poll_trailers.
InnerDataResults(b) ==
    {Pending} \cup (IF b = <<>> THEN {NoData}
                    ELSE {Chunk(Head(b))} \cup {BodyErr(e) : e \in BodyErrors})
InnerTrailerResults ==
    {Pending, NoTrailers} \cup {SomeTrailers(h) : h \in Trailers}
        \cup {BodyErr(e) : e \in BodyErrors}

\* EndSpanBody::poll_data after ready!: result.is_some() ends the span.
DataOpsOnNone(r, s, result) ==
    IF result.kind = "none" THEN <<End(r, "poll_data")>> ELSE <<>>
DataOps(r, s, result) ==
    IF result.kind \in {"chunk", "error"} THEN <<End(r, "poll_data")>> ELSE <<>>

\* EndSpanBody::poll_trailers after ready!: always ends the span.
TrailerOpsOnce(r, s, result) ==
    IF EndCount(s) = 0 THEN <<End(r, "poll_trailers")>> ELSE <<>>
TrailerOps(r, s, result) == <<End(r, "poll_trailers")>>

\* Poll::Ready(result): what the proxy hands to its caller.
ProxyRet(result) == result

\* --------------------------------------------------- ambient context
\* cx.clone().attach() in call, and the context WithContext attaches on
\* every poll of the inner future.
PollCtxNone(r, t) == ambient[t]
PollCtx(r, t) == span[r]

\* drop(attachment): the ContextGuard puts the previous context back.
DropLeaks(t) == ambient[t]
DropAttachment(t) == guard[t]

\* ------------------------------------------------------- identifiers
\* The i-th byte a draw from the thread-local random source yields.
Byte(stream, i) ==
    CASE stream = "zeros" -> 0
      [] stream = "ones" -> 255
      [] OTHER -> (37 * i) % 256

\* IdGenerator64::new_trace_id: [0u8; 16], then rng.fill(&mut bytes[8..]).
NewTraceIdFull(stream) == [i \in 1 .. 16 |-> Byte(stream, i)]
NewTraceId(stream) == [i \in 1 .. 16 |-> IF i <= 8 THEN 0 ELSE Byte(stream, i - 8)]

\* IdGenerator64::new_span_id: rng.gen::<[u8; 8]>().
NewSpanId(stream) == [i \in 1 .. 8 |-> Byte(stream, i)]

\* ------------------------------------------------------- span contexts
SpanCtx(trace, spanid, remote, fresh, dt, ds) ==
    [trace |-> trace, span |-> spanid, remote |-> remote,
     fresh |-> fresh, drawT |-> dt, drawS |-> ds]
\* SpanContext::empty_context(): the span context of a context without span.
InvalidSpanCtx ==
    SpanCtx([i \in 1 .. 16 |-> 0], [i \in 1 .. 8 |-> 0], FALSE, FALSE, "", "")
\* The local span an enclosing scope had made current (see OuterCtx).
OuterSpanCtx ==
    SpanCtx([i \in 1 .. 16 |-> 16 + i], [i \in 1 .. 8 |-> 32 + i], FALSE, FALSE, "", "")
\* The upstream span a valid header names: a full 128-bit trace id.
UpstreamSpanCtx ==
    SpanCtx([i \in 1 .. 16 |-> 128 + i], [i \in 1 .. 8 |-> 64 + i], TRUE, FALSE, "", "")
IsValid(c) == \E i \in DOMAIN c.trace : c.trace[i] # 0
\* The span context of the span a thread's base context holds.
CurrentSpanCtx(c) == IF c = OuterCtx THEN OuterSpanCtx ELSE InvalidSpanCtx

\* get_text_map_propagator(|p| p.extract(..)): the no-op propagator (no
\* monitoring set up) hands back the current context; the Zipkin one puts
\* the header's span context, marked remote, on it when the header parses.
Extract(tracer, header, current) ==
    IF tracer = "sdk" /\ header = "valid" THEN UpstreamSpanCtx
    ELSE CurrentSpanCtx(current)

\* tracer.build_with_context(builder, &parent_context): the SDK tracer
\* makes a local span, in the parent's trace when the parent is valid and
\* in a new trace otherwise; the no-op tracer hands on the parent's span
\* context.
BuildSpan(tracer, p, dt, ds) ==
    IF tracer = "sdk"
    THEN IF IsValid(p)
         THEN SpanCtx(p.trace, NewSpanId(ds), FALSE, FALSE, "", ds)
         ELSE SpanCtx(NewTraceId(dt), NewSpanId(ds), FALSE, TRUE, dt, ds)
    ELSE IF IsValid(p) THEN p ELSE InvalidSpanCtx

\* ZipkinMakeSpan::make_span: Context::current() is the context call has
\* just attached, which holds the span built for the request.
MakeSpanLinks(current) == IF current.remote THEN {current} ELSE {}

\* ----------------------------------------------------------- the sink
SinkInit ==
    [inited |-> FALSE, initRes |-> "", handle |-> FALSE, layer |-> "none",
     tracer |-> "noop", errs |-> 0, reloads |-> 0, last |-> "none"]
\* The sink after init and one setup with a Zipkin endpoint.
SinkBooted ==
    [inited |-> TRUE, initRes |-> "ok", handle |-> TRUE, layer |-> "otel",
     tracer |-> "sdk", errs |-> 0, reloads |-> 1, last |-> "ok"]

\* replace_tracing_layer(layer); reloadOk is the outcome of Handle::reload.
ReplacedSilently(s, l, reloadOk) ==
    IF s.handle
    THEN IF reloadOk
         THEN [s EXCEPT !.layer = l, !.reloads = @ + 1, !.last = "ok"]
         ELSE [s EXCEPT !.reloads = @ + 1, !.last = "reload_err"]
    ELSE [s EXCEPT !.errs = @ + 1, !.last = "ok"]
Replaced(s, l, reloadOk) ==
    IF s.handle
    THEN IF reloadOk
         THEN [s EXCEPT !.layer = l, !.reloads = @ + 1, !.last = "ok"]
         ELSE [s EXCEPT !.reloads = @ + 1, !.last = "reload_err"]
    ELSE [s EXCEPT !.errs = @ + 1, !.last = "uninit"]

\* A specification either interleaves the sink's operations with requests
\* (cfg.live) or boots first: the sink's operations run before any request,
\* and requests are served once init and setup have succeeded.
SinkEnabled == cfg.live \/ \A r \in Reqs : pc[r] = "new"
ServeEnabled == cfg.live \/ sink = SinkBooted

\* Pulls made so far on all proxies.
PullsMade == Cardinality({x \in Reqs \X (1 .. cfg.pulls) : x[2] <= Len(hist[x[1]])})

\* ----------------------------------------------------------------- Init
CfgOne == [reqs |-> {1}, minChunks |-> 0, chunks |-> MaxChunks, pulls |-> MaxPulls,
           codes |-> StatusCodes, errs |-> Errors,
           live |-> FALSE, headers |-> {"none"}, rands |-> {"count"}]
CfgConc == [reqs |-> 1 .. NumReqs, minChunks |-> ConcChunks, chunks |-> ConcChunks,
            pulls |-> ConcPulls,
            codes |-> ConcStatusCodes, errs |-> ConcErrors,
            live |-> FALSE, headers |-> {"valid"}, rands |-> {"ones"}]
\* One request from process start on, with every header and every draw,
\* interleaved with the sink's operations.
CfgEdge == [reqs |-> {1}, minChunks |-> ConcChunks, chunks |-> ConcChunks,
            pulls |-> ConcPulls,
            codes |-> ConcStatusCodes, errs |-> ConcErrors,
            live |-> TRUE, headers |-> Headers, rands |-> RngStreams]

InitWith(c) ==
    /\ cfg = c
    /\ pc = [r \in AllReqs |-> "new"]
    /\ span = [r \in AllReqs |-> 0]
    /\ nextSpan = 1
    /\ ops = [s \in AllReqs |-> <<>>]
    /\ base = [t \in Threads |-> BaseCtx(t)]
    /\ ambient = base
    /\ guard = [t \in Threads |-> 0]
    /\ busy = [t \in Threads |-> 0]
    /\ inner = [r \in AllReqs |-> [kind |-> "none", code |-> 0, err |-> ""]]
    /\ ret = [r \in AllReqs |-> [kind |-> "none", code |-> 0, err |-> ""]]
    /\ proxy = [r \in AllReqs |-> 0]
    /\ body = [r \in AllReqs |-> <<>>]
    /\ sent = [r \in AllReqs |-> <<>>]
    /\ hist = [r \in AllReqs |-> <<>>]
    /\ sink = SinkInit
    /\ hdr = [r \in AllReqs |-> "none"]
    /\ parent = [r \in AllReqs |-> InvalidSpanCtx]
    /\ sctx = [s \in AllReqs |-> InvalidSpanCtx]
    /\ links = [r \in AllReqs |-> {}]

Init == InitWith(CfgOne)
InitConc == InitWith(CfgConc)
InitEdge == InitWith(CfgEdge)

\* -------------------------------------------------------------- actions
\* Service::call up to and including self.inner.call(req): extract the
\* parent context, build the span, make its context current, invoke the
\* inner service, whose TraceLayer runs ZipkinMakeSpan::make_span at once.
CallEnter(r, t) ==
    /\ r \in Reqs /\ pc[r] = "new" /\ busy[t] = 0
    /\ ServeEnabled
    /\ span' = [span EXCEPT ![r] = nextSpan]
    /\ nextSpan' = nextSpan + 1
    /\ guard' = [guard EXCEPT ![t] = ambient[t]]
    /\ ambient' = [ambient EXCEPT ![t] = nextSpan]
    /\ busy' = [busy EXCEPT ![t] = r]
    /\ pc' = [pc EXCEPT ![r] = "incall"]
    /\ \E h \in cfg.headers, dt \in cfg.rands, ds \in cfg.rands :
          LET p == Extract(sink.tracer, h, ambient[t])
              c == BuildSpan(sink.tracer, p, dt, ds)
          IN  /\ hdr' = [hdr EXCEPT ![r] = h]
              /\ parent' = [parent EXCEPT ![r] = p]
              /\ sctx' = [sctx EXCEPT ![nextSpan] = c]
              /\ links' = [links EXCEPT ![r] = MakeSpanLinks(c)]
    /\ UNCHANGED <<cfg, ops, base, inner, ret, proxy, body, sent, hist, sink>>

\* The rest of Service::call: wrap the future, drop the attachment, return.
CallReturn(r, t) ==
    /\ r \in Reqs /\ pc[r] = "incall" /\ busy[t] = r
    /\ ambient' = [ambient EXCEPT ![t] = DropAttachment(t)]
    /\ busy' = [busy EXCEPT ![t] = 0]
    /\ pc' = [pc EXCEPT ![r] = "pending"]
    /\ UNCHANGED <<cfg, span, nextSpan, ops, base, guard, inner, ret, proxy, body, sent, hist, sink, reqIds>>

\* A poll of the returned future enters WithContext::poll: the request's
\* context is attached and the inner future runs.
FuturePollEnter(r, t) ==
    /\ r \in Reqs /\ pc[r] = "pending" /\ busy[t] = 0
    /\ guard' = [guard EXCEPT ![t] = ambient[t]]
    /\ ambient' = [ambient EXCEPT ![t] = PollCtx(r, t)]
    /\ busy' = [busy EXCEPT ![t] = r]
    /\ pc' = [pc EXCEPT ![r] = "polling"]
    /\ UNCHANGED <<cfg, span, nextSpan, ops, base, inner, ret, proxy, body, sent, hist, sink, reqIds>>

\* The inner future is not ready: the guard is dropped, Pending goes up.
FuturePollPending(r, t) ==
    /\ r \in Reqs /\ pc[r] = "polling" /\ busy[t] = r
    /\ ambient' = [ambient EXCEPT ![t] = guard[t]]
    /\ busy' = [busy EXCEPT ![t] = 0]
    /\ pc' = [pc EXCEPT ![r] = "pending"]
    /\ UNCHANGED <<cfg, span, nextSpan, ops, base, guard, inner, ret, proxy, body, sent, hist, sink, reqIds>>

\* The inner future yields Ok(response): guard dropped, then the closure's
\* Ok branch runs and the body is replaced by an EndSpanBody.
FuturePollOk(r, t, code, n) ==
    /\ r \in Reqs /\ pc[r] = "polling" /\ busy[t] = r
    /\ code \in cfg.codes /\ n \in cfg.minChunks .. cfg.chunks
    /\ ambient' = [ambient EXCEPT ![t] = guard[t]]
    /\ busy' = [busy EXCEPT ![t] = 0]
    /\ ops' = [ops EXCEPT ![span[r]] = @ \o OkOps(r, code)]
    /\ proxy' = [proxy EXCEPT ![r] = span[r]]
    /\ body' = [body EXCEPT ![r] = MkBody(n)]
    /\ sent' = [sent EXCEPT ![r] = MkBody(n)]
    /\ inner' = [inner EXCEPT ![r] = [kind |-> "ok", code |-> code, err |-> ""]]
    /\ ret' = [ret EXCEPT ![r] = [kind |-> "ok", code |-> code, err |-> ""]]
    /\ pc' = [pc EXCEPT ![r] = "responded"]
    /\ UNCHANGED <<cfg, span, nextSpan, base, guard, hist, sink, reqIds>>

\* The inner future yields Err(error): guard dropped, then the closure's
\* Err branch runs and the error goes up.
FuturePollErr(r, t, e) ==
    /\ r \in Reqs /\ pc[r] = "polling" /\ busy[t] = r
    /\ e \in cfg.errs
    /\ ambient' = [ambient EXCEPT ![t] = guard[t]]
    /\ busy' = [busy EXCEPT ![t] = 0]
    /\ ops' = [ops EXCEPT ![span[r]] = @ \o ErrOps(r, e)]
    /\ inner' = [inner EXCEPT ![r] = [kind |-> "err", code |-> 0, err |-> e]]
    /\ ret' = [ret EXCEPT ![r] = [kind |-> "err", code |-> 0, err |-> e]]
    /\ pc' = [pc EXCEPT ![r] = "failed"]
    /\ UNCHANGED <<cfg, span, nextSpan, base, guard, proxy, body, sent, hist, sink, reqIds>>

\* The task is cancelled: the pending future is dropped unpolled.
CancelFuture(r) ==
    /\ r \in Reqs /\ pc[r] = "pending"
    /\ pc' = [pc EXCEPT ![r] = "cancelled"]
    /\ UNCHANGED <<cfg, span, nextSpan, ops, ambient, base, guard, busy, inner, ret,
                   proxy, body, sent, hist, sink, reqIds>>

\* EndSpanBody::poll_data.
PollData(r, result) ==
    /\ r \in Reqs /\ pc[r] = "responded" /\ PullsMade < cfg.pulls
    /\ result \in InnerDataResults(body[r])
    /\ body' = [body EXCEPT ![r] =
                    CASE result.kind = "chunk" -> Tail(@)
                      [] result.kind = "error" -> <<>>
                      [] OTHER -> @]
    /\ ops' = [ops EXCEPT ![proxy[r]] =
                    IF result.kind = "pending" THEN @
                    ELSE @ \o DataOps(r, proxy[r], result)]
    /\ hist' = [hist EXCEPT ![r] =
                    Append(@, [fn |-> "data", inner |-> result,
                               out |-> IF result.kind = "pending" THEN Pending
                                       ELSE ProxyRet(result)])]
    /\ UNCHANGED <<cfg, pc, span, nextSpan, ambient, base, guard, busy, inner, ret, proxy, sent, sink, reqIds>>

\* EndSpanBody::poll_trailers.
PollTrailers(r, result) ==
    /\ r \in Reqs /\ pc[r] = "responded" /\ PullsMade < cfg.pulls
    /\ result \in InnerTrailerResults
    /\ ops' = [ops EXCEPT ![proxy[r]] =
                    IF result.kind = "pending" THEN @
                    ELSE @ \o TrailerOps(r, proxy[r], result)]
    /\ hist' = [hist EXCEPT ![r] =
                    Append(@, [fn |-> "trailers", inner |-> result,
                               out |-> IF result.kind = "pending" THEN Pending
                                       ELSE ProxyRet(result)])]
    /\ UNCHANGED <<cfg, pc, span, nextSpan, ambient, base, guard, busy, inner, ret,
                   proxy, body, sent, sink, reqIds>>

\* The consumer drops the response body (done, disconnected or cancelled).
DropProxy(r) ==
    /\ r \in Reqs /\ pc[r] = "responded"
    /\ pc' = [pc EXCEPT ![r] = "dropped"]
    /\ UNCHANGED <<cfg, span, nextSpan, ops, ambient, base, guard, busy, inner, ret,
                   proxy, body, sent, hist, sink, reqIds>>

\* startup_base::init: a second call panics in color_eyre::install; a bad
\* base config returns before the handle is stored, a bad app config after.
InitBase(outcome) ==
    /\ SinkEnabled /\ ~sink.inited
    /\ outcome \in {"bad_base", "bad_app", "ok"}
    /\ sink' = [sink EXCEPT !.inited = TRUE, !.initRes = outcome,
                            !.handle = (outcome # "bad_base")]
    /\ UNCHANGED <<cfg, pc, span, nextSpan, ops, ambient, base, guard, busy, inner, ret,
                   proxy, body, sent, hist, reqIds>>

\* MonitoringConfig::setup with a Zipkin endpoint: installs the propagator
\* and the SDK tracer, then calls replace_tracing_layer with its layer.
Setup(reloadOk) ==
    /\ SinkEnabled /\ sink.errs + sink.reloads < MaxReplaces
    /\ reloadOk \in BOOLEAN
    /\ sink' = Replaced([sink EXCEPT !.tracer = "sdk"], "otel", reloadOk)
    /\ UNCHANGED <<cfg, pc, span, nextSpan, ops, ambient, base, guard, busy, inner, ret,
                   proxy, body, sent, hist, reqIds>>

\* replace_tracing_layer called by any other code.
ReplaceTracingLayer(l, reloadOk) ==
    /\ SinkEnabled /\ sink.errs + sink.reloads < MaxReplaces
    /\ l \in Layers /\ reloadOk \in BOOLEAN
    /\ sink' = Replaced(sink, l, reloadOk)
    /\ UNCHANGED <<cfg, pc, span, nextSpan, ops, ambient, base, guard, busy, inner, ret,
                   proxy, body, sent, hist, reqIds>>

Next ==
    \/ \E r \in AllReqs, t \in Threads : CallEnter(r, t)
    \/ \E r \in AllReqs, t \in Threads : CallReturn(r, t)
    \/ \E r \in AllReqs, t \in Threads : FuturePollEnter(r, t)
    \/ \E r \in AllReqs, t \in Threads : FuturePollPending(r, t)
    \/ \E r \in AllReqs, t \in Threads, code \in cfg.codes, n \in cfg.minChunks .. cfg.chunks :
            FuturePollOk(r, t, code, n)
    \/ \E r \in AllReqs, t \in Threads, e \in cfg.errs : FuturePollErr(r, t, e)
    \/ \E r \in AllReqs : CancelFuture(r)
    \/ \E r \in AllReqs : \E result \in InnerDataResults(body[r]) : PollData(r, result)
    \/ \E r \in AllReqs : \E result \in InnerTrailerResults : PollTrailers(r, result)
    \/ \E r \in AllReqs : DropProxy(r)
    \/ \E outcome \in {"bad_base", "bad_app", "ok"} : InitBase(outcome)
    \/ \E reloadOk \in BOOLEAN : Setup(reloadOk)
    \/ \E l \in Layers, reloadOk \in BOOLEAN : ReplaceTracingLayer(l, reloadOk)

Spec == Init /\ [][Next]_vars
SpecConc == InitConc /\ [][Next]_vars
SpecEdge == InitEdge /\ [][Next]_vars

\* =============================================================== claims
Succeeded(r) == pc[r] \in {"responded", "dropped"}
Idx(r) == DOMAIN hist[r]
DataPull(h) == h.fn = "data"
TrailerPull(h) == h.fn = "trailers"
Completed(h) == h.out.kind # "pending"
\* The chunks the consumer received from the proxy, in order.
Delivered(r) ==
    LET got == SelectSeq(hist[r], LAMBDA h : DataPull(h) /\ h.out.kind = "chunk")
    IN  [i \in DOMAIN got |-> got[i].out.val]
IsPrefix(a, b) == Len(a) <= Len(b) /\ \A i \in DOMAIN a : a[i] = b[i]
\* Only data-pulls so far, each pending or yielding a chunk.
OnlyChunkPulls(r) ==
    \A i \in Idx(r) : DataPull(hist[r][i]) /\ hist[r][i].out.kind \in {"pending", "chunk"}
SawNoData(r) == \E i \in Idx(r) : DataPull(hist[r][i]) /\ hist[r][i].out.kind = "none"
SawBodyError(r) == \E i \in Idx(r) : DataPull(hist[r][i]) /\ hist[r][i].out.kind = "error"
TrailersCompleted(r) ==
    Cardinality({i \in Idx(r) : TrailerPull(hist[r][i]) /\ Completed(hist[r][i])})
EndsVia(s, via) ==
    Cardinality({i \in DOMAIN ops[s] : IsEnd(ops[s][i]) /\ ops[s][i].via = via})
HasErrorStatus(s) == \E i \in DOMAIN ops[s] : ops[s][i].op = "set_status"

\* C1: while the consumer has only pulled data and every pull yielded a
\* chunk (or was pending), the chunks it received are the body's chunks
\* unchanged and in order, and end has not been invoked on the span: the
\* span is open when each chunk, the last included, is delivered.
ClaimC1_ChunkPullKeepsSpanOpen ==
    \A r \in Reqs :
        (Succeeded(r) /\ OnlyChunkPulls(r)) =>
            /\ IsPrefix(Delivered(r), sent[r])
            /\ EndCount(proxy[r]) = 0

\* C2: once a data-pull has returned "no more data", end has been invoked
\* on the span, also when the consumer never pulls the trailers.
ClaimC2_NoMoreDataEndsSpan ==
    \A r \in Reqs :
        (Succeeded(r) /\ SawNoData(r)) => EndCount(proxy[r]) >= 1

\* C3: every completed trailer-pull invokes end on the span, whether or not
\* the span was ended before (one end per completed trailer-pull, the last
\* operation on the span when the pull returns), a pending trailer-pull
\* invokes nothing, and the proxy returns the wrapped body's trailer result
\* unchanged.
TrailerPullAlwaysEnds ==
    \A r \in Reqs :
        Succeeded(r) =>
            /\ EndsVia(proxy[r], "poll_trailers") = TrailersCompleted(r)
            /\ \A i \in Idx(r) : TrailerPull(hist[r][i]) => hist[r][i].out = hist[r][i].inner
            /\ (hist[r] # <<>> /\ TrailerPull(hist[r][Len(hist[r])])
                    /\ Completed(hist[r][Len(hist[r])])) =>
                  LET log == ops[proxy[r]]
                  IN  log # <<>> /\ log[Len(log)].op = "end"
                        /\ log[Len(log)].via = "poll_trailers"

\* C3 witness: a trailer-pull completed on a span an earlier data-pull had
\* already ended.
TrailerPullAfterDataEnd ==
    \E r \in Reqs :
        /\ Succeeded(r) /\ TrailersCompleted(r) >= 1
        /\ EndsVia(proxy[r], "poll_data") >= 1
        /\ LET log == ops[proxy[r]] IN log[Len(log)].via = "poll_trailers"

\* C4: when the inner operation fails, the operations on the request's span
\* are exactly set_status(Error, debug rendering of the error),
\* record_exception(error), end, in this order, with end invoked once; the
\* error returned upstream is the inner operation's error; no proxy exists.
FailureEndsSpanOnce ==
    \A r \in Reqs :
        pc[r] = "failed" =>
            LET log == ops[span[r]] IN
            /\ inner[r].kind = "err" /\ ret[r] = inner[r]
            /\ Len(log) = 3
            /\ log[1].op = "set_status" /\ log[1].text = DebugFmt(inner[r].err)
            /\ log[2].op = "record_exception" /\ log[2].text = inner[r].err
            /\ log[3].op = "end"
            /\ EndCount(span[r]) = 1
            /\ proxy[r] = 0 /\ hist[r] = <<>>

\* C4 witness: a request whose inner operation failed.
FailureReturned ==
    \E r \in Reqs : pc[r] = "failed" /\ ret[r].err = "timeout"

\* C5: after a successful inner operation the status code is the first
\* operation on the span, the proxy carries this request's span context,
\* the span is open until the first pull on the proxy, and every end on the
\* span comes from a pull on the proxy.
SuccessLeavesSpanOpen ==
    \A r \in Reqs :
        Succeeded(r) =>
            LET log == ops[span[r]] IN
            /\ proxy[r] = span[r] /\ span[r] # 0
            /\ log # <<>> /\ log[1].op = "set_attribute" /\ log[1].code = ret[r].code
            /\ ret[r].kind = "ok" /\ ret[r] = inner[r]
            /\ (hist[r] = <<>> => EndCount(span[r]) = 0)
            /\ \A i \in DOMAIN log :
                  IsEnd(log[i]) => log[i].via \in {"poll_data", "poll_trailers"}

\* C5 witness: the response has been returned upstream and nothing has been
\* pulled from its body yet.
ResponseReturnedUnpulled ==
    \E r \in Reqs : pc[r] = "responded" /\ hist[r] = <<>> /\ ret[r].code = 200

\* C6 as stated: for a successful response the span status is set to Error
\* if and only if the status code is 500 or above.
ClaimC6_ErrorIffAtLeast500 ==
    \A r \in Reqs :
        Succeeded(r) => (HasErrorStatus(span[r]) <=> ret[r].code >= 500)

\* C6 amended: for a successful response the span status is set to Error if
\* and only if the status code is in 500..599, and then once, with the
\* code's canonical reason text (empty when the code has none).
ErrorIffServerErrorClass ==
    \A r \in Reqs :
        Succeeded(r) =>
            LET log == ops[span[r]]
                sets == {i \in DOMAIN log : log[i].op = "set_status"}
            IN  /\ (sets # {}) <=> (ret[r].code >= 500 /\ ret[r].code <= 599)
                /\ Cardinality(sets) <= 1
                /\ \A i \in sets : log[i].text = CanonicalReason(ret[r].code)

\* C6 witness: a 5xx response without a canonical reason, marked Error.
ServerErrorResponseMarked ==
    \E r \in Reqs : Succeeded(r) /\ ret[r].code = 599 /\ HasErrorStatus(span[r])

\* C7: on every span, nothing but end follows an end: no set_attribute,
\* set_status or record_exception is performed after end.
EndIsLastOperation ==
    \A s \in AllReqs :
        \A i, j \in DOMAIN ops[s] :
            (i < j /\ IsEnd(ops[s][i])) => IsEnd(ops[s][j])

\* C7 witness: a span that was written, then ended by a data-pull and ended
\* again by a trailer-pull.
WrittenThenEndedTwice ==
    \E r \in Reqs :
        /\ Succeeded(r) /\ HasErrorStatus(span[r])
        /\ EndsVia(span[r], "poll_data") >= 1 /\ EndsVia(span[r], "poll_trailers") >= 1

\* C8: while a request's inner future is being polled on a thread, that
\* thread's ambient context is the request's own span context, not another
\* request's and not the one the thread had before; and every operation on
\* a span is performed by the request the span was built for.
PollRunsInOwnContext ==
    /\ \A t \in Threads :
          (busy[t] # 0 /\ pc[busy[t]] = "polling") =>
              /\ ambient[t] = span[busy[t]] /\ span[busy[t]] # 0
              /\ ambient[t] # base[t]
              /\ \A r \in Reqs \ {busy[t]} : ambient[t] # span[r]
    /\ \A s \in AllReqs : \A i \in DOMAIN ops[s] : span[ops[s][i].by] = s

\* C8 witness: two requests' inner futures are being polled on two threads
\* while neither thread started in the empty context of the other.
TwoRequestsPolled ==
    \E t1, t2 \in Threads :
        /\ t1 # t2 /\ busy[t1] # 0 /\ busy[t2] # 0
        /\ pc[busy[t1]] = "polling" /\ pc[busy[t2]] = "polling"

\* C9: while call invokes the inner service the span's context is ambient
\* on the calling thread, and a thread that is not inside call or a poll
\* has the ambient context it had before, whatever became of the requests.
AttachmentIsScopeBound ==
    \A t \in Threads :
        /\ (busy[t] # 0 /\ pc[busy[t]] = "incall") =>
              (ambient[t] = span[busy[t]] /\ guard[t] = base[t])
        /\ busy[t] = 0 => ambient[t] = base[t]

\* C9 witness: call has returned for two requests, one of which failed later
\* and one of which succeeded, and every thread is idle.
CallReturnedBothOutcomes ==
    /\ \A t \in Threads : busy[t] = 0
    /\ \E r1, r2 \in Reqs : pc[r1] = "failed" /\ pc[r2] = "responded"

\* C10: a proxy dropped before any data-pull reported "no more data" and
\* before any trailer-pull completed (and without a body error) leaves the
\* span open: end has not been invoked, whatever chunks were pulled.
ClaimC10_EarlyDropLeavesSpanOpen ==
    \A r \in Reqs :
        (pc[r] = "dropped" /\ ~SawNoData(r) /\ ~SawBodyError(r)
            /\ TrailersCompleted(r) = 0) => EndCount(proxy[r]) = 0

Called(r) == pc[r] # "new"
Built == 1 .. (nextSpan - 1)
ItemsYielded(r) ==
    Cardinality({i \in Idx(r) : DataPull(hist[r][i])
                                  /\ hist[r][i].out.kind \in {"chunk", "error"}})

\* C11: the span made for a request is linked to the extracted upstream
\* context if and only if that context's origin is remote: a request with
\* a valid upstream header is linked to it, a request without one is not
\* linked at all.
ClaimC11_LinkedIffRemote ==
    \A r \in Reqs :
        Called(r) => links[r] = (IF parent[r].remote THEN {parent[r]} ELSE {})

\* C12: the sink cell starts without a handle; a replace_tracing_layer call
\* made while the cell has no handle returns "not yet initialized" and
\* leaves the handle, the active layer and the reload count as they were;
\* a call made once the handle is stored reaches Handle::reload and never
\* returns that error; a stored handle stays stored.
SinkCellContract ==
    /\ ~sink.handle /\ sink.layer = "none"
    /\ [][/\ sink.handle => sink'.handle
          /\ (sink'.errs + sink'.reloads = sink.errs + sink.reloads + 1) =>
                IF sink.handle
                THEN /\ sink'.reloads = sink.reloads + 1 /\ sink'.errs = sink.errs
                     /\ sink'.last \in {"ok", "reload_err"}
                ELSE /\ sink'.last = "uninit" /\ sink'.errs = sink.errs + 1
                     /\ sink'.reloads = sink.reloads /\ sink'.layer = sink.layer
                     /\ sink'.handle = sink.handle]_vars

\* C12 witness: a replacement failed before init, and a later one, after
\* init, reached reload and swapped the layer.
ReplacedAfterEarlyFailure ==
    sink.handle /\ sink.errs >= 1 /\ sink.reloads >= 1 /\ sink.last = "ok"

\* C13: a trace id made by new_trace_id has 16 bytes, the first 8 zero and
\* the last 8 the bytes drawn from the random source; a span id made by
\* new_span_id has 8 bytes, the bytes drawn.
TraceIdHighBytesZero ==
    \A s \in Built :
        /\ sctx[s].fresh =>
              /\ Len(sctx[s].trace) = 16
              /\ \A i \in 1 .. 8 : sctx[s].trace[i] = 0
              /\ \A i \in 9 .. 16 : sctx[s].trace[i] = Byte(sctx[s].drawT, i - 8)
        /\ sctx[s].drawS # "" =>
              /\ Len(sctx[s].span) = 8
              /\ \A i \in 1 .. 8 : sctx[s].span[i] = Byte(sctx[s].drawS, i)

\* C13 witness: a trace id was made from a draw of eight 0xFF bytes.
TraceIdFromAllOnes ==
    \E s \in Built : sctx[s].fresh /\ sctx[s].drawT = "ones" /\ sctx[s].trace[16] = 255

====
